---- MODULE Spec2Model ----
(***************************************************************************)
(* cuDAMO (src/cudamo.py): discriminative optimisation of a position       *)
(* weight matrix.  Real numbers are kept in fixed point: log values in     *)
(* 1e-3 nat, learning rates in 1e-2, PWM entries and scores in 1e-5 nat.   *)
(* An AUC is kept as the integer 2*wins + ties; its denominator            *)
(* 2 * #positives * #negatives is the same for a whole run.                *)
(***************************************************************************)
EXTENDS Integers, Sequences, FiniteSets, TLC

\* ---------------------------------------------------------------- bounds
\* largest iteration count a caller supplies
MaxIterations == 2
\* largest number of sequences in the positive or in the negative file
MaxSeqs == 2

\* ------------------------------------------------------ program constants
\* damo(..., iterations=500)
DefaultIterations == 500

\* LEARNING_RATES = [1.0, 0.55, 0.1], in hundredths
LEARNING_RATES == <<100, 55, 10>>

Alphabet == <<"A", "C", "G", "T">>

\* row of the PWM (and channel of the one-hot encoding) of a nucleotide
one_hot_encode(c) == CHOOSE k \in 1..4 : Alphabet[k] = c

Complement(c) == Alphabet[5 - one_hot_encode(c)]

reverse_complement(s) == [j \in 1..Len(s) |-> Complement(s[Len(s) + 1 - j])]

\* ----------------------------------------------------------------- inputs
\* FASTA records the positive and negative files are drawn from
SequencePool ==
    << <<"A","C","A">>, <<"A","A","T">>, <<"G","C","C">>, <<"T","C","A">> >>

\* seed profiles, already in log space (_get_PWM), rows A C G T
SeedPWMs ==
    { << <<-36000, -139000>>, <<-139000, -139000>>,
         <<-230000, -139000>>, <<-230000, -139000>> >>,
      << <<-139000, -36000>>, <<-139000, -230000>>,
         <<-139000, -230000>>, <<-139000, -120000>> >> }

\* the files of at most MaxSeqs records: sub-lists of the pool, in pool order
RECURSIVE SubLists(_)
SubLists(k) ==
    IF k = 0 THEN {<< >>}
    ELSE LET prev == SubLists(k - 1)
         IN  prev \cup {Append(l, SequencePool[k]) : l \in prev}

FastaFiles == {l \in SubLists(Len(SequencePool)) : Len(l) <= MaxSeqs}

\* ------------------------------------------------------------ MotifScanner
RECURSIVE SumTo(_, _)
SumTo(f, k) == IF k = 0 THEN 0 ELSE f[k] + SumTo(f, k - 1)

\* torch.nn.Conv1d(4, 1, kernel_size=L), weight = pwm, bias = 0: the score
\* of every window of the one-hot encoded sequence s (positions from 1)
conv1d(pwm, s) ==
    LET L == Len(pwm[1])
    IN  [p \in 1..(Len(s) - L + 1) |->
            SumTo([j \in 1..L |-> pwm[one_hot_encode(s[p + j - 1])][j]], L)]

\* torch.nn.MaxPool1d over the whole row, return_indices=True: the maximum
\* and the position of its first occurrence
maxpool1d(v) ==
    LET m == CHOOSE x \in {v[p] : p \in DOMAIN v} : \A p \in DOMAIN v : v[p] <= x
        i == CHOOSE p \in DOMAIN v : v[p] = m /\ \A q \in 1..(p - 1) : v[q] # m
    IN  <<m, i>>

\* the model applied to one sequence
_get_PWM_model(pwm, s) == maxpool1d(conv1d(pwm, s))

\* strands are compared with >=, so that an equal score keeps the forward site
__get_best_site_fwd_ties(fwd, rev, sequences, motif_length) ==
    IF fwd[1] >= rev[1]
    THEN <<fwd[1], SubSeq(sequences[fwd[3]], fwd[2], fwd[2] + motif_length - 1)>>
    ELSE <<rev[1], SubSeq(sequences[rev[3]], rev[2], rev[2] + motif_length - 1)>>

\* fwd and rev are <<score, position, index in sequences>>
__get_best_site(fwd, rev, sequences, motif_length) ==
    IF fwd[1] > rev[1]
    THEN <<fwd[1], SubSeq(sequences[fwd[3]], fwd[2], fwd[2] + motif_length - 1)>>
    ELSE <<rev[1], SubSeq(sequences[rev[3]], rev[2], rev[2] + motif_length - 1)>>

\* the list of pairs as a pair of lists
Unzip(pairs) ==
    << [i \in DOMAIN pairs |-> pairs[i][1]], [i \in DOMAIN pairs |-> pairs[i][2]] >>

\* first half of sequences: forward strands; second half: their reverse
\* complements.  Result: <<scores, sites>>, one entry per original sequence
_score_sequences(pwm, sequences, motif_length) ==
    LET n    == Len(sequences) \div 2
        z(k) == LET r == _get_PWM_model(pwm, sequences[k]) IN <<r[1], r[2], k>>
        best == [i \in 1..n |->
                    __get_best_site(z(i), z(i + n), sequences, motif_length)]
    IN  Unzip(best)

\* the forward strands followed by the reverse complements (damo, 83-86)
BothStrands(file) ==
    file \o [i \in 1..Len(file) |-> reverse_complement(file[i])]

\* --------------------------------------------------- DiscriminationEvaluator
RECURSIVE SumOver(_, _)
SumOver(f, S) ==
    IF S = {} THEN 0
    ELSE LET x == CHOOSE y \in S : TRUE IN f[x] + SumOver(f, S \ {x})

\* an AUC that never raises
roc_auc_score_never_raises(y_true) == FALSE

\* sklearn.metrics.roc_auc_score raises ValueError when only one class is
\* present in y_true
roc_auc_score_raises(y_true) ==
    \/ \A i \in DOMAIN y_true : y_true[i] # 1
    \/ \A i \in DOMAIN y_true : y_true[i] # 0

\* sklearn.metrics.roc_auc_score: P(positive > negative) with ties at one
\* half, here as 2 * wins + ties
roc_auc_score(y_true, y_score) ==
    LET P == {i \in DOMAIN y_true : y_true[i] = 1}
        N == {i \in DOMAIN y_true : y_true[i] = 0}
    IN       SumOver([pr \in P \X N |->
                         IF y_score[pr[1]] > y_score[pr[2]] THEN 2
                         ELSE IF y_score[pr[1]] = y_score[pr[2]] THEN 1 ELSE 0],
                     P \X N)

\* <<auc, y_true, y_score>>
_compute_AUC(positive_scores, negative_scores) ==
    LET y_true  == [i \in 1..Len(positive_scores) |-> 1]
                       \o [i \in 1..Len(negative_scores) |-> 0]
        y_score == positive_scores \o negative_scores
    IN  <<roc_auc_score(y_true, y_score), y_true, y_score>>

\* ---------------------------------------------------------------- PWMUpdater
\* np.log of the twice normalised PFM cell with count c out of n sites and
\* pseudocount 1e-4: 1000 * ln((c + 1e-4) / (n + 4e-4)), LogPFM[n + 1][c + 1]
LogPFM ==
    << <<-1386>>,
       <<-9211, 0>>,
       <<-9904, -693, 0>>,
       <<-10309, -1099, -406, 0>>,
       <<-10597, -1386, -693, -288, 0>>,
       <<-10820, -1609, -916, -511, -223, 0>> >>

\* 4 x L matrix of the log frequencies of the sites
__generate_PWM(sequences, motif_length) ==
    [b \in 1..4 |-> [i \in 1..motif_length |->
        LogPFM[Len(sequences) + 1]
              [Cardinality({k \in 1..Len(sequences) :
                                sequences[k][i] = Alphabet[b]}) + 1]]]

\* a descending sort that reverses the order of equal scores
argsort_desc_reversed(y_score) ==
    LET before(k, i) == y_score[k] > y_score[i] \/ (y_score[k] = y_score[i] /\ k > i)
        rank(i) == Cardinality({k \in DOMAIN y_score : before(k, i)}) + 1
    IN  [r \in DOMAIN y_score |-> CHOOSE i \in DOMAIN y_score : rank(i) = r]

\* np.argsort(-y_score, kind="mergesort"): indices by descending score,
\* equal scores in their original order
argsort_desc(y_score) ==
    LET before(k, i) == y_score[k] > y_score[i] \/ (y_score[k] = y_score[i] /\ k < i)
        rank(i) == Cardinality({k \in DOMAIN y_score : before(k, i)}) + 1
    IN  [r \in DOMAIN y_score |-> CHOOSE i \in DOMAIN y_score : rank(i) = r]

\* list.index(l) raises ValueError when l is not in the list
index_raises(labels, l) == \A i \in DOMAIN labels : labels[i] # l

\* labels.index(0), counted from 0
ix_first_negative(labels) ==
    (CHOOSE i \in DOMAIN labels :
         labels[i] = 0 /\ \A k \in 1..(i - 1) : labels[k] # 0) - 1

\* the index of the last positive itself, not one past it
ix_last_positive_inclusive(labels) ==
    (CHOOSE i \in DOMAIN labels :
         labels[i] = 1 /\ \A k \in (i + 1)..Len(labels) : labels[k] # 1) - 1

\* len(labels) - labels[::-1].index(1)
ix_last_positive(labels) ==
    CHOOSE i \in DOMAIN labels :
        labels[i] = 1 /\ \A k \in (i + 1)..Len(labels) : labels[k] # 1

\* indices (in sorted order, from 1) of z[ix_first_negative:ix_last_positive]
ConfusionZone(labels) ==
    (ix_first_negative(labels) + 1)..ix_last_positive(labels)

SelectIdx(Z, labels, l) == {r \in Z : labels[r] = l}

RECURSIVE Pick(_, _, _)
\* the elements of seq at the indices of S, in order, from index k on
Pick(seq, S, k) ==
    IF k > Len(seq) THEN << >>
    ELSE IF k \in S THEN <<seq[k]>> \o Pick(seq, S, k + 1)
    ELSE Pick(seq, S, k + 1)

\* the (site, label) pairs by descending score: <<sequences, labels>>
SortedByScore(y_true, y_score, sites) ==
    LET idxs == argsort_desc(y_score)
    IN  << [r \in DOMAIN idxs |-> sites[idxs[r]]],
           [r \in DOMAIN idxs |-> y_true[idxs[r]]] >>

\* _update_PWM raises when labels.index finds no negative or no positive
_update_PWM_raises(y_true) == index_raises(y_true, 0) \/ index_raises(y_true, 1)

\* _update_PWM, 286: pwm + lr * (positive_pwm - negative_pwm)
AddScaled(pwm, lr, positive_pwm, negative_pwm) ==
    [b \in 1..4 |-> [j \in 1..Len(pwm[1]) |->
        pwm[b][j] + lr * (positive_pwm[b][j] - negative_pwm[b][j])]]

\* _update_PWM, 274-284: <<positive_pwm, negative_pwm>> of the two mixes of
\* the confusion zone Z
MixPWMs(sequences, labels, Z, L) ==
    << __generate_PWM(Pick(sequences, SelectIdx(Z, labels, 1), 1), L),
       __generate_PWM(Pick(sequences, SelectIdx(Z, labels, 0), 1), L) >>

\* _update_PWM, 268-284, on the sorted pairs z
SplitZone(z, L) == MixPWMs(z[1], z[2], ConfusionZone(z[2]), L)

\* _update_PWM, 286, on the PWMs m of the two mixes
Contrast(pwm, lr, m) == AddScaled(pwm, lr, m[1], m[2])

\* lr in hundredths; the candidate PWM
_update_PWM(y_true, y_score, sites, lr, pwm) ==
    Contrast(pwm, lr, SplitZone(SortedByScore(y_true, y_score, sites), Len(pwm[1])))

\* ------------------------------------------------------------------- state
VARIABLES
    pc,                  \* position in main / damo
    entry,               \* "main": run from the command line; "damo": damo called
    args_iterations,     \* the iteration count the caller supplies
    positive_seqs_file,  \* records of the positive FASTA file
    negative_seqs_file,  \* records of the negative FASTA file
    jaspar_profile_file, \* the seed profile as _get_PWM reads it
    threads, iterations, \* parameters of damo
    pwm, auc, original_auc, y_true, y_score, positive_sites, negative_sites,
    n_iter,              \* iterations of the outer loop begun
    pwm_0, auc_0, y_true_0, y_score_0, sites_0,
    lr,                  \* index in LEARNING_RATES of the rate being tried
    pwm_1,
    tried,               \* candidates evaluated in this iteration
    stdout,              \* <<original_auc, auc>> of the summary line
    returned,            \* <<pwm>> once damo has returned
    handle               \* rows written to the output

inputs == <<entry, args_iterations, positive_seqs_file, negative_seqs_file,
            jaspar_profile_file>>
params == <<threads, iterations>>
current == <<pwm, auc, y_true, y_score, positive_sites, negative_sites>>
start == <<pwm_0, auc_0, y_true_0, y_score_0, sites_0>>
outputs == <<stdout, returned, handle>>
vars == <<pc, inputs, params, current, original_auc, n_iter, start, lr, pwm_1,
          tried, outputs>>

Init ==
    /\ entry \in {"main", "damo"}
    /\ pc = entry
    /\ args_iterations \in 0..MaxIterations
    /\ positive_seqs_file \in FastaFiles
    /\ negative_seqs_file \in FastaFiles
    /\ jaspar_profile_file \in SeedPWMs
    /\ threads = 1
    /\ iterations = IF entry = "damo" THEN args_iterations ELSE DefaultIterations
    /\ pwm = << >> /\ auc = 0 /\ original_auc = 0
    /\ y_true = << >> /\ y_score = << >>
    /\ positive_sites = << >> /\ negative_sites = << >>
    /\ n_iter = 0
    /\ pwm_0 = << >> /\ auc_0 = 0 /\ y_true_0 = << >> /\ y_score_0 = << >>
    /\ sites_0 = << >>
    /\ lr = 0
    /\ pwm_1 = << >>
    /\ tried = << >>
    /\ stdout = << >> /\ returned = << >> /\ handle = << >>

positive_seqs == BothStrands(positive_seqs_file)
negative_seqs == BothStrands(negative_seqs_file)

\* pwm.shape[1]
motif_length == Len(jaspar_profile_file[1])

\* ----------------------------------------------------------------- actions
\* main, 57-58: damo(positive, negative, profile, debugging, iterations);
\* the fifth positional parameter of damo is threads
main_call ==
    /\ pc = "main"
    /\ threads' = args_iterations
    /\ iterations' = DefaultIterations
    /\ pc' = "damo"
    /\ UNCHANGED <<inputs, current, original_auc, n_iter, start, lr, pwm_1,
                   tried, outputs>>

\* damo, 88-108: a file without records gives an empty tensor, which the
\* convolution may refuse
damo_scan_error ==
    /\ pc = "damo"
    /\ positive_seqs_file = << >> \/ negative_seqs_file = << >>
    /\ pc' = "error"
    /\ UNCHANGED <<inputs, params, current, original_auc, n_iter, start, lr,
                   pwm_1, tried, outputs>>

\* damo, 80-113: read, score the seed PWM, compute the AUC
damo_begin ==
    /\ pc = "damo"
    /\ \E seed \in {jaspar_profile_file} :
       \E ps \in {_score_sequences(seed, positive_seqs, motif_length)} :
       \E ns \in {_score_sequences(seed, negative_seqs, motif_length)} :
       \E r \in {_compute_AUC(ps[1], ns[1])} :
           /\ pwm' = seed
           /\ positive_sites' = ps[2]
           /\ negative_sites' = ns[2]
           /\ IF roc_auc_score_raises(r[2])
              THEN /\ pc' = "error"
                   /\ UNCHANGED <<auc, original_auc, y_true, y_score>>
              ELSE /\ pc' = "loop"
                   /\ original_auc' = r[1]
                   /\ auc' = r[1]
                   /\ y_true' = r[2]
                   /\ y_score' = r[3]
    /\ UNCHANGED <<inputs, params, n_iter, start, lr, pwm_1, tried, outputs>>

\* a range that yields one value more
range_has_next_inclusive(n, its) == n <= its

\* for _ in range(iterations) after n passes
range_has_next(n, its) == n < its

\* damo, 116-123: begin an iteration
iteration_begin ==
    /\ pc = "loop"
    /\ range_has_next(n_iter, iterations)
    /\ n_iter' = n_iter + 1
    /\ pwm_0' = pwm
    /\ auc_0' = auc
    /\ y_true_0' = y_true
    /\ y_score_0' = y_score
    /\ sites_0' = positive_sites \o negative_sites
    /\ lr' = 1
    /\ tried' = << >>
    /\ pc' = "rate"
    /\ UNCHANGED <<inputs, params, current, original_auc, pwm_1, outputs>>

\* damo, 116: the range is used up
exhausted ==
    /\ pc = "loop"
    /\ ~range_has_next(n_iter, iterations)
    /\ pc' = "summary"
    /\ UNCHANGED <<inputs, params, current, original_auc, n_iter, start, lr,
                   pwm_1, tried, outputs>>

\* the labels, scores and sites of the candidate scored last
update_args_latest == <<y_true, y_score, positive_sites \o negative_sites, pwm_0>>

\* damo, 129: the arguments of _update_PWM except the rate
update_args == <<y_true_0, y_score_0, sites_0, pwm_0>>

\* acceptance of a candidate that is merely not worse
improves_or_equal(a, a_0) == a >= a_0

\* damo, 147: if auc > auc_0
improves(a, a_0) == a > a_0

\* damo, 126-149: one learning rate
try_rate ==
    /\ pc = "rate"
    /\ IF _update_PWM_raises(update_args[1])
       THEN /\ pc' = "error"
            /\ UNCHANGED <<current, lr, pwm_1, tried>>
       ELSE \E a \in {update_args} :
            \E cand \in {_update_PWM(a[1], a[2], a[3], LEARNING_RATES[lr], a[4])} :
            \E ps \in {_score_sequences(cand, positive_seqs, Len(cand[1]))} :
            \E ns \in {_score_sequences(cand, negative_seqs, Len(cand[1]))} :
            \E r \in {_compute_AUC(ps[1], ns[1])} :
                /\ pwm_1' = cand
                /\ positive_sites' = ps[2]
                /\ negative_sites' = ns[2]
                /\ auc' = r[1]
                /\ y_true' = r[2]
                /\ y_score' = r[3]
                /\ tried' = Append(tried, [lr |-> LEARNING_RATES[lr],
                                           pwm_1 |-> cand, auc |-> r[1]])
                /\ IF improves(r[1], auc_0)
                   THEN /\ pwm' = cand
                        /\ pc' = "early_stop"
                        /\ lr' = lr
                   ELSE /\ pwm' = pwm
                        /\ IF lr < Len(LEARNING_RATES)
                           THEN lr' = lr + 1 /\ pc' = "rate"
                           ELSE lr' = lr /\ pc' = "early_stop"
    /\ UNCHANGED <<inputs, params, original_auc, n_iter, start, outputs>>

\* a comparison of the identity of two arrays, one of them a copy
array_is(a, b) == FALSE

\* np.array_equal
array_equal(a, b) == a = b

\* damo, 152-153: the PWM did not change, leave the loop
converged ==
    /\ pc = "early_stop"
    /\ array_equal(pwm_0, pwm)
    /\ pc' = "summary"
    /\ UNCHANGED <<inputs, params, current, original_auc, n_iter, start, lr,
                   pwm_1, tried, outputs>>

\* damo, 152: the PWM changed, next iteration
accepted ==
    /\ pc = "early_stop"
    /\ ~array_equal(pwm_0, pwm)
    /\ pc' = "loop"
    /\ UNCHANGED <<inputs, params, current, original_auc, n_iter, start, lr,
                   pwm_1, tried, outputs>>

\* damo, 155-158: print the summary line, return the PWM
summary ==
    /\ pc = "summary"
    /\ stdout' = <<original_auc, auc>>
    /\ returned' = <<pwm>>
    /\ pc' = IF entry = "main" THEN "write" ELSE "done"
    /\ UNCHANGED <<inputs, params, current, original_auc, n_iter, start, lr,
                   pwm_1, tried, handle>>

\* pwm.T
Transpose(m) == [j \in 1..Len(m[1]) |-> [b \in 1..Len(m) |-> m[b][j]]]

\* main, 60-68: one line per row of pwm.T
main_write ==
    /\ pc = "write"
    /\ handle' = Transpose(returned[1])
    /\ pc' = "done"
    /\ UNCHANGED <<inputs, params, current, original_auc, n_iter, start, lr,
                   pwm_1, tried, stdout, returned>>

Next ==
    \/ main_call
    \/ damo_scan_error
    \/ damo_begin
    \/ iteration_begin
    \/ exhausted
    \/ try_rate
    \/ converged
    \/ accepted
    \/ summary
    \/ main_write

Spec == Init /\ [][Next]_vars

\* ------------------------------------------------------------- properties
\* <<auc, y_true, y_score, sites>> of a PWM on the two files, from scratch
Evaluate(p) ==
    LET ps == _score_sequences(p, positive_seqs, Len(p[1]))
        ns == _score_sequences(p, negative_seqs, Len(p[1]))
    IN  _compute_AUC(ps[1], ns[1]) \o << ps[2] \o ns[2] >>

AUCof(p) == Evaluate(p)[1]

\* the optimisation loop is running or has ended normally
Scored == pc \in {"loop", "rate", "early_stop", "summary", "write", "done"}

\* C1: a candidate becomes the current PWM only if its AUC is strictly
\* greater than the AUC held at the start of the iteration, which is the AUC
\* of the PWM it replaces; so the AUC of the current PWM never decreases and
\* rises with every adoption.
C1_Monotonicity ==
    [][(pc = "rate" /\ pwm' # pwm) =>
           /\ pwm' = pwm_1'
           /\ auc' > auc_0
           /\ auc_0 = AUCof(pwm)
           /\ auc' = AUCof(pwm')
           /\ AUCof(pwm') > AUCof(pwm)]_vars

\* a candidate is adopted in a later iteration, after a rejected one
C1_Witness ==
    /\ pc = "early_stop"
    /\ n_iter > 1
    /\ pwm # pwm_0
    /\ Len(tried) > 1

\* every learning rate was tried in this iteration and none improved the AUC
NoRateImproved ==
    /\ Len(tried) = Len(LEARNING_RATES)
    /\ \A k \in DOMAIN tried : tried[k].auc <= auc_0

\* C2: when none of the three rates improves on the iteration-start AUC,
\* the loop stops in that iteration, within the iteration cap, and the PWM
\* returned is the PWM held at the start of that iteration.
C2_Convergence ==
    [][/\ (pc = "early_stop" /\ NoRateImproved) =>
              /\ pc' = "summary"
              /\ n_iter' = n_iter
              /\ n_iter <= iterations
              /\ pwm' = pwm_0
       /\ (pc = "summary" /\ NoRateImproved) => returned' = <<pwm_0>>]_vars

\* a run converged in a later iteration and discarded candidates that
\* differ from the PWM it returned
C2_Witness ==
    /\ pc = "done"
    /\ NoRateImproved
    /\ n_iter > 1
    /\ returned = <<pwm_0>>
    /\ \E k \in DOMAIN tried : tried[k].pwm_1 # pwm_0

\* C3: the AUC the summary line reports after optimisation is the AUC of
\* the PWM damo returns.
C3_ReportedAUCIsFinal ==
    stdout # << >> => stdout[2] = AUCof(returned[1])

\* the PWM whose scores and sites are held in y_score and the site lists
LastScored == IF pwm_1 = << >> THEN pwm ELSE pwm_1

\* the two files as one list, positives first
AllRecords == positive_seqs_file \o negative_seqs_file

AllSites == positive_sites \o negative_sites

\* best <<score, position>> of one strand under PWM p
StrandBest(p, s) == maxpool1d(conv1d(p, s))

Window(s, pos, L) == SubSeq(s, pos, pos + L - 1)

\* the score and site reported for a sequence are the best of strand s,
\* found at b = StrandBest(p, s)
Reports(score, site, p, s, b) ==
    score = b[1] /\ site = Window(s, b[2], Len(p[1]))

\* record i reports the best score and site of the forward strand
ReportsForward(p, i) ==
    Reports(y_score[i], AllSites[i], p, AllRecords[i],
            StrandBest(p, AllRecords[i]))

FwdScore(i) == StrandBest(LastScored, AllRecords[i])[1]
RevScore(i) == StrandBest(LastScored, reverse_complement(AllRecords[i]))[1]

\* C4 as stated: every sequence reports the forward strand's best score and
\* site unless the reverse strand's best score is strictly greater; on equal
\* scores the forward site is reported.
C4_StrandMergeForwardOnTie ==
    Scored =>
        \A p \in {LastScored} : \A recs \in {AllRecords} : \A sites \in {AllSites} :
        \A i \in DOMAIN recs :
        \A f \in {StrandBest(p, recs[i])} :
        \A r \in {StrandBest(p, reverse_complement(recs[i]))} :
            IF r[1] > f[1]
            THEN Reports(y_score[i], sites[i], p, reverse_complement(recs[i]), r)
            ELSE Reports(y_score[i], sites[i], p, recs[i], f)

\* C4 amended: every sequence reports the reverse strand's best score and
\* site unless the forward strand's best score is strictly greater; on equal
\* scores the reverse-complement site is reported.
C4_StrandMergeReverseOnTie ==
    Scored =>
        \A p \in {LastScored} : \A recs \in {AllRecords} : \A sites \in {AllSites} :
            /\ Len(y_score) = Len(recs)
            /\ Len(sites) = Len(recs)
            /\ \A i \in DOMAIN recs :
               \A f \in {StrandBest(p, recs[i])} :
               \A r \in {StrandBest(p, reverse_complement(recs[i]))} :
                   IF f[1] > r[1]
                   THEN Reports(y_score[i], sites[i], p, recs[i], f)
                   ELSE Reports(y_score[i], sites[i], p,
                                reverse_complement(recs[i]), r)

\* a candidate was scored on which the two strands of a sequence tie with
\* different sites, while another sequence is won by its forward strand
C4_Witness ==
    /\ Scored
    /\ pwm_1 # << >>
    /\ \E i \in DOMAIN AllRecords :
           /\ FwdScore(i) = RevScore(i)
           /\ ~ReportsForward(LastScored, i)
    /\ \E i \in DOMAIN AllRecords : FwdScore(i) > RevScore(i)

\* the input of _update_PWM in this iteration, sorted
SortedLabels == SortedByScore(y_true_0, y_score_0, sites_0)[2]

\* position after the sort of the sequence at index i of the input
SortedPos(i) ==
    LET idxs == argsort_desc(y_score_0)
    IN  CHOOSE r \in DOMAIN idxs : idxs[r] = i

\* a positive and a negative sequence of the input with the same score
TiedPairs ==
    {pr \in (DOMAIN y_true_0) \X (DOMAIN y_true_0) :
        /\ y_true_0[pr[1]] = 1
        /\ y_true_0[pr[2]] = 0
        /\ y_score_0[pr[1]] = y_score_0[pr[2]]}

InIteration == pc \in {"rate", "early_stop"}

\* position in the sorted order idxs of the sequence at index i of the input
PosIn(idxs, i) == CHOOSE r \in DOMAIN idxs : idxs[r] = i

\* C5 as stated: a positive and a negative sequence with identical scores
\* both lie inside the confusion zone after the stable sort, and _update_PWM
\* does not raise.
C5_TiedPairInsideZone ==
    InIteration =>
        /\ ~_update_PWM_raises(y_true_0)
        /\ \A idxs \in {argsort_desc(y_score_0)} :
           \A Z \in {ConfusionZone([r \in DOMAIN idxs |-> y_true_0[idxs[r]]])} :
           \A pr \in TiedPairs :
               /\ PosIn(idxs, pr[1]) \in Z
               /\ PosIn(idxs, pr[2]) \in Z

\* C5 amended: the stable sort puts the positive of such a pair before the
\* negative; the positive is inside the zone exactly when some negative is
\* sorted before it and the negative exactly when some positive is sorted
\* after it; _update_PWM does not raise.
C5_TiedPairOrder ==
    InIteration =>
        /\ ~_update_PWM_raises(y_true_0)
        /\ \A idxs \in {argsort_desc(y_score_0)} :
           \A labels \in {[r \in DOMAIN idxs |-> y_true_0[idxs[r]]]} :
           \A Z \in {ConfusionZone(labels)} :
           \A pr \in TiedPairs :
           \A p \in {PosIn(idxs, pr[1])} : \A n \in {PosIn(idxs, pr[2])} :
               /\ labels = SortedLabels
               /\ p < n
               /\ p \in Z <=> \E r \in 1..(p - 1) : labels[r] = 0
               /\ n \in Z <=> \E r \in (n + 1)..Len(labels) : labels[r] = 1

\* candidates were built, in a later iteration, from an input of more than
\* two sequences in which a tied pair lies outside the confusion zone
C5_Witness ==
    /\ pc = "early_stop"
    /\ tried # << >>
    /\ n_iter > 1
    /\ Len(y_true_0) > 2
    /\ \E pr \in TiedPairs :
           /\ SortedPos(pr[1]) \notin ConfusionZone(SortedLabels)
           /\ SortedPos(pr[2]) \notin ConfusionZone(SortedLabels)

\* C6: the iterations run never exceed the iteration count the caller
\* supplies.
C6_IterationsWithinSupplied == n_iter <= args_iterations

\* C7: with iteration cap 0 no candidate is built or scored, the PWM
\* returned is the seed PWM and the summary reports the same AUC before and
\* after.
C7_ZeroIterationIdentity ==
    (iterations = 0 /\ pc # "main") =>
        /\ n_iter = 0
        /\ pwm_1 = << >>
        /\ tried = << >>
        /\ Scored => pwm = jaspar_profile_file /\ auc = AUCof(jaspar_profile_file)
        /\ returned # << >> =>
               /\ returned = <<jaspar_profile_file>>
               /\ stdout[1] = stdout[2]
               /\ stdout[1] = AUCof(jaspar_profile_file)

\* damo returned with iteration cap 0
C7_Witness == iterations = 0 /\ pc = "done" /\ returned # << >>

\* C8: with an empty positive or negative file damo ends in an error; it
\* prints no summary, returns no PWM, and main writes nothing.
C8_DegenerateLabels ==
    (positive_seqs_file = << >> \/ negative_seqs_file = << >>) =>
        /\ pc \in {"main", "damo", "error"}
        /\ stdout = << >>
        /\ returned = << >>
        /\ handle = << >>

\* run from main, the AUC computation raised on a file without records
C8_Witness ==
    /\ entry = "main"
    /\ pc = "error"
    /\ pwm # << >>
    /\ negative_seqs_file = << >>
    /\ positive_seqs_file # << >>

\* the candidate of rate index k, from the iteration-start PWM and the
\* labels, scores and sites e = Evaluate(pwm_0) that PWM gives
CandidateFromStart(e, k) ==
    _update_PWM(e[2], e[3], e[4], <<100, 55, 10>>[k], pwm_0)

\* C9: in an iteration the rates are tried in the order 1.0, 0.55, 0.1;
\* every candidate is computed from the iteration-start PWM, labels, scores
\* and sites; the adopted PWM is the candidate of the first rate whose AUC
\* exceeds the iteration-start AUC, and no later rate is evaluated.
C9_RateOrdering ==
    InIteration =>
        /\ Len(tried) <= 3
        /\ \A k \in DOMAIN tried :
               /\ tried[k].lr = <<100, 55, 10>>[k]
               /\ k < Len(tried) => tried[k].auc <= auc_0
        /\ pc = "rate" =>
               /\ pwm = pwm_0
               /\ Len(tried) = lr - 1
               /\ \A k \in DOMAIN tried : tried[k].auc <= auc_0
        /\ pc = "early_stop" =>
               /\ \A e \in {Evaluate(pwm_0)} :
                      /\ auc_0 = e[1]
                      /\ \A k \in DOMAIN tried :
                             /\ tried[k].pwm_1 = CandidateFromStart(e, k)
                             /\ tried[k].auc = AUCof(tried[k].pwm_1)
               /\ IF tried[Len(tried)].auc > auc_0
                  THEN pwm = tried[Len(tried)].pwm_1
                  ELSE pwm = pwm_0 /\ Len(tried) = 3

\* the second rate is adopted after the first was rejected with scores
\* that differ from the iteration-start scores
C9_Witness ==
    /\ pc = "early_stop"
    /\ Len(tried) = 2
    /\ pwm = tried[2].pwm_1
    /\ pwm # pwm_0
    /\ Evaluate(tried[1].pwm_1)[3] # y_score_0

ZoneEmpty == ConfusionZone(SortedLabels) = {}

\* C10: first_negative <= last_positive; the confusion zone is empty or
\* holds a positive and a negative site; with an empty zone the candidate of
\* every rate equals the current PWM and the optimizer converges in that
\* iteration.
C10_ConfusionZoneShape ==
    InIteration =>
        \A labels \in {SortedLabels} : \A Z \in {ConfusionZone(labels)} :
            /\ ix_first_negative(labels) <= ix_last_positive(labels)
            /\ \/ Z = {}
               \/ /\ SelectIdx(Z, labels, 1) # {}
                  /\ SelectIdx(Z, labels, 0) # {}
            /\ Z = {} =>
                   /\ \A k \in DOMAIN tried : tried[k].pwm_1 = pwm_0
                   /\ pwm = pwm_0
                   /\ pc = "early_stop" =>
                          /\ \A k \in DOMAIN LEARNING_RATES :
                                 _update_PWM(y_true_0, y_score_0, sites_0,
                                             LEARNING_RATES[k], pwm_0) = pwm_0
                          /\ Len(tried) = 3
                          /\ ENABLED converged

\* an iteration after an adoption ended with an empty confusion zone
C10_Witness ==
    /\ pc = "early_stop"
    /\ n_iter > 1
    /\ ZoneEmpty
    /\ Len(tried) = 3

====
